---- MODULE Spec2Model ----
(***************************************************************************)
(* Model of st-func-rs: the Vector container (vector.rs) and the           *)
(* Nigam-Jennings single-degree-of-freedom response engine (sdof.rs).      *)
(*                                                                         *)
(* Numbers.  An f64 is a record [fin, v]: fin = TRUE for a finite value v  *)
(* (an integer here), fin = FALSE for a non-finite one (inf or NaN; the    *)
(* two are not told apart, both absorb + and * in the expressions used).   *)
(* Arithmetic on finite values is exact: rounding and overflow of finite   *)
(* operands are outside the model.                                         *)
(*                                                                         *)
(* The damping ratio h is held in halves (h = 1 stands for 0.5, h = 2 for  *)
(* 1.0), so that 2.0 * h is the integer h and 1.0 - h * h has the sign of  *)
(* 4 - h * h.  omega and delta_t are integers.                             *)
(*                                                                         *)
(* exp, sin and cos are not interpreted: where the source's coefficient    *)
(* expression is finite and not forced to 0 or 1 by sin(0), cos(0), its    *)
(* value is any member of CoefVals.                                        *)
(***************************************************************************)
EXTENDS Integers, Sequences, FiniteSets, TLC

\* ---------------------------------------------------------------- bounds
MaxN == 3

MaxSize == 3

GVals == {-3, 0}

CoefVals == {-1, 2}

HVals == {-1, 0, 1, 2, 3}

OmegaVals == {-1, 0, 2}

DeltaTVals == {-1, 0, 1}

ElemVals == {0, 2}

\* ------------------------------------------------------------------ f64
F(x) == [fin |-> TRUE, v |-> x]

NaN == [fin |-> FALSE, v |-> 0]

FAdd(a, b) == IF a.fin /\ b.fin THEN F(a.v + b.v) ELSE NaN

FSub(a, b) == IF a.fin /\ b.fin THEN F(a.v - b.v) ELSE NaN

FMul(a, b) == IF a.fin /\ b.fin THEN F(a.v * b.v) ELSE NaN

SeqsUpTo(S, k) == UNION {[1..m -> S] : m \in 0..k}

FSeq(s) == [k \in 1..Len(s) |-> F(s[k])]

\* --------------------------------------------------------------- Vector
\* Mutant of VecNew: capacity reserved, no element stored.
VecNewWithCapacity(size) == [size |-> size, data |-> <<>>]

\* Vector::new: size default elements.
VecNew(size) == [size |-> size, data |-> [k \in 1..size |-> F(0)]]

\* Vector::from_vec: the size is the length of the data.
VecFromVec(data) == [size |-> Len(data), data |-> data]

\* Vector::len (not in the sources at hand): the fixed length.
VecLen(vec) == vec.size

\* The bounds check of Vec's indexing, made by Index and IndexMut.
InBounds(vec, index) == index < Len(vec.data)

\* Index::index, for an index in bounds (zero-based).
VecIndex(vec, index) == vec.data[index + 1]

\* IndexMut::index_mut followed by the assignment, for an index in bounds.
VecIndexMut(vec, index, value) == [vec EXCEPT !.data[index + 1] = value]

\* A panic: the operation is abandoned and returns nothing.
Panicked == [outcome |-> "panic", result |-> <<>>]

Returned(value) == [outcome |-> "ok", result |-> <<value>>]

\* The loops of add and sub: for i in 0..self.size { result[i] = self[i] (+|-) other[i] }.
RECURSIVE ElementLoop(_, _, _, _, _)
ElementLoop(res, a, b, k, minus) ==
    IF ~(k < a.size) THEN Returned(res)
    ELSE IF InBounds(a, k) /\ InBounds(b, k) /\ InBounds(res, k)
         THEN ElementLoop(
                  VecIndexMut(res, k,
                      IF minus THEN FSub(VecIndex(a, k), VecIndex(b, k))
                               ELSE FAdd(VecIndex(a, k), VecIndex(b, k))),
                  a, b, k + 1, minus)
         ELSE Panicked

\* Mutant of VecAdd: the size assertion is missing.
VecAddUnchecked(a, b) == ElementLoop(VecNew(a.size), a, b, 0, FALSE)

\* Add::add: assert!(self.size == other.size), then the loop.
VecAdd(a, b) ==
    IF a.size = b.size THEN ElementLoop(VecNew(a.size), a, b, 0, FALSE)
    ELSE Panicked

\* Mutant of VecSub: the loop of add copied without changing the operator.
VecSubPlus(a, b) ==
    IF a.size = b.size THEN ElementLoop(VecNew(a.size), a, b, 0, FALSE)
    ELSE Panicked

\* Sub::sub: assert!(self.size == other.size), then the loop.
VecSub(a, b) ==
    IF a.size = b.size THEN ElementLoop(VecNew(a.size), a, b, 0, TRUE)
    ELSE Panicked

\* --------------------------------------------------- sdof.rs: the engine
VARIABLES
    y0_ddot,        \* the ground acceleration, a Vector (argument)
    delta_t,        \* the time step (argument)
    omega,          \* the natural circular frequency (argument)
    h,              \* the damping ratio, in halves (argument)
    pc,             \* where nigam_jennings is: "start", "pre", "coef",
                    \* "loop", "returned", "panic"
    n,              \* let n = y0_ddot.len()
    y,              \* displacement history
    y_dot,          \* velocity history
    y_y0_ddot,      \* absolute acceleration history
    y_pre,          \* displacement of the previous step
    y_dot_pre,      \* velocity of the previous step
    y0_ddot_pre,    \* ground acceleration of the previous step
    coef,           \* the eight coefficients a11 .. b22
    i,              \* the loop variable of `for i in 1..n`
    response        \* <<>> until the function returns <<SdofResponse>>

VARIABLES
    self,           \* the Vector operated on (left operand of + and -)
    other,          \* the right operand of + and -
    built,          \* the length self was constructed with
    op,             \* the last Vector operation
    index,          \* the index the last read or write used
    outcome,        \* "ok" or "panic": how the last operation ended
    result          \* <<>> or <<v>>: the value the last operation returned

engineVars == <<y0_ddot, delta_t, omega, h, pc, n, y, y_dot, y_y0_ddot,
                y_pre, y_dot_pre, y0_ddot_pre, coef, i, response>>

vectorVars == <<self, other, built, op, index, outcome, result>>

vars == <<engineVars, vectorVars>>

\* 4 * (1.0 - h * h): the sign of the argument of sqrt.
Radicand(hh) == 4 - hh * hh

\* a11 (lines 40-41): NaN when sqrt(1 - h*h) is NaN or 0 (h / 0 * sin(0));
\* exactly 1 when omega_dash * delta_t = 0 and h * omega * delta_t = 0.
A11Set(dt, om, hh) ==
    IF Radicand(hh) <= 0 THEN {NaN}
    ELSE IF om = 0 \/ dt = 0 THEN {F(1)}
    ELSE {F(c) : c \in CoefVals}

\* a12 (line 42): exp(..) / omega_dash * sin(..) is inf * 0 when omega_dash = 0.
A12Set(dt, om, hh) ==
    IF Radicand(hh) <= 0 \/ om = 0 THEN {NaN}
    ELSE IF dt = 0 THEN {F(0)}
    ELSE {F(c) : c \in CoefVals}

\* a21 (lines 43-44): -omega / sqrt(1 - h*h) * exp(..) * sin(..).
A21Set(dt, om, hh) ==
    IF Radicand(hh) <= 0 THEN {NaN}
    ELSE IF om = 0 \/ dt = 0 THEN {F(0)}
    ELSE {F(c) : c \in CoefVals}

\* a22 (lines 45-46).
A22Set(dt, om, hh) ==
    IF Radicand(hh) <= 0 THEN {NaN}
    ELSE IF om = 0 \/ dt = 0 THEN {F(1)}
    ELSE {F(c) : c \in CoefVals}

\* b11, b12, b21, b22 (lines 47-75): each divides by omega * omega * delta_t
\* and by sqrt(1 - h*h) or omega_dash.
BSet(dt, om, hh) ==
    IF Radicand(hh) <= 0 \/ om = 0 \/ dt = 0 THEN {NaN}
    ELSE {F(c) : c \in CoefVals}

Coefficients(dt, om, hh) ==
    [a11 : A11Set(dt, om, hh), a12 : A12Set(dt, om, hh),
     a21 : A21Set(dt, om, hh), a22 : A22Set(dt, om, hh),
     b11 : BSet(dt, om, hh), b12 : BSet(dt, om, hh),
     b21 : BSet(dt, om, hh), b22 : BSet(dt, om, hh)]

ZeroCoef == [a11 |-> F(0), a12 |-> F(0), a21 |-> F(0), a22 |-> F(0),
             b11 |-> F(0), b12 |-> F(0), b21 |-> F(0), b22 |-> F(0)]

\* Mutant of YCur: the two load terms take each other's sample.
YCurLoadsSwapped(c, yp, ydp, gp, gc) ==
    FAdd(FAdd(FAdd(FMul(c.a11, yp), FMul(c.a12, ydp)), FMul(c.b11, gc)),
         FMul(c.b12, gp))

\* Mutant of YDotCur: b21 is added to the previous ground sample, not multiplied.
YDotCurPlus(c, yp, ydp, gp, gc) ==
    FAdd(FAdd(FAdd(FMul(c.a21, yp), FMul(c.a22, ydp)), FAdd(c.b21, gp)),
         FMul(c.b22, gc))

\* Mutant of YY0DdotCur: the stiffness term has omega, not omega * omega.
YY0DdotCurLinear(hh, om, ydc, yc) ==
    FAdd(FMul(F(hh * om), ydc), FMul(F(om), yc))

\* line 79
YCur(c, yp, ydp, gp, gc) ==
    FAdd(FAdd(FAdd(FMul(c.a11, yp), FMul(c.a12, ydp)), FMul(c.b11, gp)),
         FMul(c.b12, gc))

\* line 80
YDotCur(c, yp, ydp, gp, gc) ==
    FAdd(FAdd(FAdd(FMul(c.a21, yp), FMul(c.a22, ydp)), FMul(c.b21, gp)),
         FMul(c.b22, gc))

\* line 81: 2.0 * h * omega * y_dot_cur + omega * omega * y_cur
\* (2.0 * h is the integer hh).
YY0DdotCur(hh, om, ydc, yc) ==
    FAdd(FMul(F(hh * om), ydc), FMul(F(om * om), yc))

SdofResponse(acc, vel, disp) ==
    [absolute_acceleration |-> acc,
     relative_velocity |-> vel,
     relative_displacement |-> disp]

EngineInit ==
    /\ y0_ddot \in {VecFromVec(FSeq(s)) : s \in SeqsUpTo(GVals, MaxN)}
    /\ delta_t \in DeltaTVals
    /\ omega \in OmegaVals
    /\ h \in HVals
    /\ pc = "start"
    /\ n = 0
    /\ y = VecNew(0)
    /\ y_dot = VecNew(0)
    /\ y_y0_ddot = VecNew(0)
    /\ y_pre = F(0)
    /\ y_dot_pre = F(0)
    /\ y0_ddot_pre = F(0)
    /\ coef = ZeroCoef
    /\ i = 0
    /\ response = <<>>

\* lines 29-33: n and the three zero-filled histories.
Alloc ==
    /\ pc = "start"
    /\ n' = VecLen(y0_ddot)
    /\ y' = VecNew(VecLen(y0_ddot))
    /\ y_dot' = VecNew(VecLen(y0_ddot))
    /\ y_y0_ddot' = VecNew(VecLen(y0_ddot))
    /\ pc' = "pre"
    /\ UNCHANGED <<y0_ddot, delta_t, omega, h, y_pre, y_dot_pre, y0_ddot_pre,
                   coef, i, response>>

\* lines 35-37: the carried state; y0_ddot[0] panics on an empty input.
InitPre ==
    /\ pc = "pre"
    /\ IF InBounds(y0_ddot, 0)
       THEN /\ y_pre' = F(0)
            /\ y_dot_pre' = F(0)
            /\ y0_ddot_pre' = VecIndex(y0_ddot, 0)
            /\ pc' = "coef"
       ELSE /\ pc' = "panic"
            /\ UNCHANGED <<y_pre, y_dot_pre, y0_ddot_pre>>
    /\ UNCHANGED <<y0_ddot, delta_t, omega, h, n, y, y_dot, y_y0_ddot, coef,
                   i, response>>

\* lines 39-75: the eight coefficients, once.
Derive ==
    /\ pc = "coef"
    /\ coef' \in Coefficients(delta_t, omega, h)
    /\ pc' = "for"
    /\ UNCHANGED <<y0_ddot, delta_t, omega, h, n, y, y_dot, y_y0_ddot, y_pre,
                   y_dot_pre, y0_ddot_pre, i, response>>

\* Mutant of EnterLoop: the range starts at 0.
EnterLoopFromZero ==
    /\ pc = "for"
    /\ i' = 0
    /\ pc' = "loop"
    /\ UNCHANGED <<y0_ddot, delta_t, omega, h, n, y, y_dot, y_y0_ddot, y_pre,
                   y_dot_pre, y0_ddot_pre, coef, response>>

\* line 77: the range 1..n starts at 1.
EnterLoop ==
    /\ pc = "for"
    /\ i' = 1
    /\ pc' = "loop"
    /\ UNCHANGED <<y0_ddot, delta_t, omega, h, n, y, y_dot, y_y0_ddot, y_pre,
                   y_dot_pre, y0_ddot_pre, coef, response>>

\* lines 77-90: one iteration of the loop body.
LoopStep ==
    /\ pc = "loop"
    /\ i < n
    /\ IF InBounds(y0_ddot, i) /\ InBounds(y, i) /\ InBounds(y_dot, i)
          /\ InBounds(y_y0_ddot, i)
       THEN LET y0_ddot_cur == VecIndex(y0_ddot, i)
                y_cur == YCur(coef, y_pre, y_dot_pre, y0_ddot_pre, y0_ddot_cur)
                y_dot_cur ==
                    YDotCur(coef, y_pre, y_dot_pre, y0_ddot_pre, y0_ddot_cur)
                y_y0_ddot_cur == YY0DdotCur(h, omega, y_dot_cur, y_cur)
            IN  /\ y' = VecIndexMut(y, i, y_cur)
                /\ y_dot' = VecIndexMut(y_dot, i, y_dot_cur)
                /\ y_y0_ddot' = VecIndexMut(y_y0_ddot, i, y_y0_ddot_cur)
                /\ y_pre' = y_cur
                /\ y_dot_pre' = y_dot_cur
                /\ y0_ddot_pre' = y0_ddot_cur
                /\ i' = i + 1
                /\ pc' = pc
       ELSE /\ pc' = "panic"
            /\ UNCHANGED <<y, y_dot, y_y0_ddot, y_pre, y_dot_pre, y0_ddot_pre, i>>
    /\ UNCHANGED <<y0_ddot, delta_t, omega, h, n, coef, response>>

\* lines 77, 92-96: the range is exhausted and the response is returned.
Return ==
    /\ pc = "loop"
    /\ ~(i < n)
    /\ response' = <<SdofResponse(y_y0_ddot, y_dot, y)>>
    /\ pc' = "returned"
    /\ UNCHANGED <<y0_ddot, delta_t, omega, h, n, y, y_dot, y_y0_ddot, y_pre,
                   y_dot_pre, y0_ddot_pre, coef, i>>

VectorIdle ==
    /\ self = VecNew(0)
    /\ other = VecNew(0)
    /\ built = 0
    /\ op = "none"
    /\ index = 0
    /\ outcome = "ok"
    /\ result = <<>>

Init == EngineInit /\ VectorIdle

Next ==
    \/ Alloc /\ UNCHANGED vectorVars
    \/ InitPre /\ UNCHANGED vectorVars
    \/ Derive /\ UNCHANGED vectorVars
    \/ EnterLoop /\ UNCHANGED vectorVars
    \/ LoopStep /\ UNCHANGED vectorVars
    \/ Return /\ UNCHANGED vectorVars

Spec == Init /\ [][Next]_vars

\* ------------------------------------------- vector.rs: Vector operations
EngineIdle ==
    /\ y0_ddot = VecNew(0)
    /\ delta_t = 1
    /\ omega = 1
    /\ h = 0
    /\ pc = "idle"
    /\ n = 0
    /\ y = VecNew(0)
    /\ y_dot = VecNew(0)
    /\ y_y0_ddot = VecNew(0)
    /\ y_pre = F(0)
    /\ y_dot_pre = F(0)
    /\ y0_ddot_pre = F(0)
    /\ coef = ZeroCoef
    /\ i = 0
    /\ response = <<>>

\* let self = Vector::new(size)
New(size) ==
    /\ self' = VecNew(size)
    /\ built' = size
    /\ op' = "new"
    /\ outcome' = "ok"
    /\ result' = <<>>
    /\ UNCHANGED <<other, index>>

\* let self = Vector::from_vec(data)
FromVec(data) ==
    /\ self' = VecFromVec(data)
    /\ built' = Len(data)
    /\ op' = "from_vec"
    /\ outcome' = "ok"
    /\ result' = <<>>
    /\ UNCHANGED <<other, index>>

\* let other = Vector::from_vec(data)
FromVecOther(data) ==
    /\ other' = VecFromVec(data)
    /\ op' = "from_vec_other"
    /\ outcome' = "ok"
    /\ result' = <<>>
    /\ UNCHANGED <<self, built, index>>

\* self[idx], read
Read(idx) ==
    /\ op' = "read"
    /\ index' = idx
    /\ IF InBounds(self, idx)
       THEN /\ outcome' = "ok"
            /\ result' = <<VecIndex(self, idx)>>
       ELSE /\ outcome' = "panic"
            /\ result' = <<>>
    /\ UNCHANGED <<self, other, built>>

\* Mutant of Write: a write past the end grows the data instead of failing.
WriteGrowing(idx, value) ==
    /\ op' = "write"
    /\ index' = idx
    /\ result' = <<>>
    /\ outcome' = "ok"
    /\ self' = IF InBounds(self, idx) THEN VecIndexMut(self, idx, value)
               ELSE [self EXCEPT !.data = Append(self.data, value)]
    /\ UNCHANGED <<other, built>>

\* self[idx] = value
Write(idx, value) ==
    /\ op' = "write"
    /\ index' = idx
    /\ result' = <<>>
    /\ IF InBounds(self, idx)
       THEN /\ outcome' = "ok"
            /\ self' = VecIndexMut(self, idx, value)
       ELSE /\ outcome' = "panic"
            /\ self' = self
    /\ UNCHANGED <<other, built>>

\* self + other
Add ==
    /\ op' = "add"
    /\ outcome' = VecAdd(self, other).outcome
    /\ result' = VecAdd(self, other).result
    /\ UNCHANGED <<self, other, built, index>>

\* self - other
Sub ==
    /\ op' = "sub"
    /\ outcome' = VecSub(self, other).outcome
    /\ result' = VecSub(self, other).result
    /\ UNCHANGED <<self, other, built, index>>

VecInit == EngineIdle /\ VectorIdle

VecNext ==
    \/ \E size \in 0..MaxSize : New(size) /\ UNCHANGED engineVars
    \/ \E data \in SeqsUpTo(ElemVals, MaxSize) :
           FromVec(FSeq(data)) /\ UNCHANGED engineVars
    \/ \E data \in SeqsUpTo(ElemVals, MaxSize) :
           FromVecOther(FSeq(data)) /\ UNCHANGED engineVars
    \/ \E idx \in 0..(MaxSize + 1) : Read(idx) /\ UNCHANGED engineVars
    \/ \E idx \in 0..(MaxSize + 1), value \in ElemVals :
           Write(idx, F(value)) /\ UNCHANGED engineVars
    \/ Add /\ UNCHANGED engineVars
    \/ Sub /\ UNCHANGED engineVars

VecSpec == VecInit /\ [][VecNext]_vars

\* ------------------------------------------------------------ properties
AllZero(vec) == \A k \in 1..Len(vec.data) : vec.data[k] = F(0)

CoefFinite ==
    /\ coef.a11.fin /\ coef.a12.fin /\ coef.a21.fin /\ coef.a22.fin
    /\ coef.b11.fin /\ coef.b12.fin /\ coef.b21.fin /\ coef.b22.fin

\* The contract of the engine's parameters: delta_t > 0, omega > 0, 0 <= h < 1
\* (h in halves: 0 <= h < 2).
ValidParameters == delta_t > 0 /\ omega > 0 /\ h >= 0 /\ h < 2

\* C1: while the loop runs and after it, every index k in 1..i-1 holds
\* y[k] = a11*y[k-1] + a12*v[k-1] + b11*g[k-1] + b12*g[k] and
\* v[k] = a21*y[k-1] + a22*v[k-1] + b21*g[k-1] + b22*g[k]; at the start of
\* iteration i the carried y_pre, y_dot_pre, y0_ddot_pre are y[i-1], v[i-1],
\* g[i-1]; and the indices from i on are not yet computed (increasing order).
C1_Recurrence ==
    pc \in {"loop", "returned"} =>
        /\ i >= 1 /\ i <= n
        /\ \A k \in 1..(i - 1) :
              /\ VecIndex(y, k) =
                    FAdd(FAdd(FAdd(FMul(coef.a11, VecIndex(y, k - 1)),
                                   FMul(coef.a12, VecIndex(y_dot, k - 1))),
                              FMul(coef.b11, VecIndex(y0_ddot, k - 1))),
                         FMul(coef.b12, VecIndex(y0_ddot, k)))
              /\ VecIndex(y_dot, k) =
                    FAdd(FAdd(FAdd(FMul(coef.a21, VecIndex(y, k - 1)),
                                   FMul(coef.a22, VecIndex(y_dot, k - 1))),
                              FMul(coef.b21, VecIndex(y0_ddot, k - 1))),
                         FMul(coef.b22, VecIndex(y0_ddot, k)))
        /\ y_pre = VecIndex(y, i - 1)
        /\ y_dot_pre = VecIndex(y_dot, i - 1)
        /\ y0_ddot_pre = VecIndex(y0_ddot, i - 1)
        /\ \A k \in i..(n - 1) :
              VecIndex(y, k) = F(0) /\ VecIndex(y_dot, k) = F(0)

\* A returned run of three samples whose last displacement is finite and not 0.
C1_Witness ==
    /\ pc = "returned" /\ n = 3
    /\ VecIndex(y, 2).fin /\ VecIndex(y, 2).v # 0
    /\ VecIndex(y, 1).v # 0 /\ VecIndex(y_dot, 1).v # 0

\* C2: in the returned response, at every index k in 0..n-1 the absolute
\* acceleration is 2*h*omega*velocity[k] + omega^2*displacement[k], and at
\* index 0 it is 0 whatever g[0] is.
C2_AbsoluteAcceleration ==
    pc = "returned" =>
        LET r == response[1] IN
        /\ \A k \in 0..(n - 1) :
              VecIndex(r.absolute_acceleration, k) =
                  FAdd(FMul(F(h * omega), VecIndex(r.relative_velocity, k)),
                       FMul(F(omega * omega), VecIndex(r.relative_displacement, k)))
        /\ VecIndex(r.absolute_acceleration, 0) = F(0)

\* A returned response with g[0] # 0, damping, and a finite non-zero
\* absolute acceleration that differs from the undamped one.
C2_Witness ==
    /\ pc = "returned" /\ n >= 2
    /\ VecIndex(y0_ddot, 0) # F(0)
    /\ h * omega # 0
    /\ VecIndex(response[1].absolute_acceleration, 1).fin
    /\ VecIndex(response[1].absolute_acceleration, 1).v # 0
    /\ VecIndex(response[1].relative_velocity, 1).v # 0
    /\ VecIndex(response[1].relative_displacement, 1).v # 0

\* C3: if every ground sample is 0 and the eight coefficients are finite,
\* displacement, velocity and absolute acceleration are 0 at every index,
\* during the loop and in the result, and so are the carried values.
C3_RestFixedPoint ==
    (AllZero(y0_ddot) /\ CoefFinite /\ pc \in {"loop", "returned"}) =>
        /\ AllZero(y) /\ AllZero(y_dot) /\ AllZero(y_y0_ddot)
        /\ y_pre = F(0) /\ y_dot_pre = F(0)
        /\ pc = "returned" =>
              /\ AllZero(response[1].relative_displacement)
              /\ AllZero(response[1].relative_velocity)
              /\ AllZero(response[1].absolute_acceleration)

\* An all-zero input of three samples, finite coefficients, returned.
C3_Witness ==
    /\ pc = "returned" /\ n = 3 /\ i = 3
    /\ AllZero(y0_ddot) /\ CoefFinite
    /\ h * omega # 0

C5_Lengths ==
    /\ pc \in {"pre", "coef", "for", "loop", "returned"} =>
          /\ n = Len(y0_ddot.data)
          /\ y.size = n /\ Len(y.data) = n
          /\ y_dot.size = n /\ Len(y_dot.data) = n
          /\ y_y0_ddot.size = n /\ Len(y_y0_ddot.data) = n
    /\ pc = "returned" =>
          /\ n >= 1
          /\ Len(response[1].relative_displacement.data) = Len(y0_ddot.data)
          /\ Len(response[1].relative_velocity.data) = Len(y0_ddot.data)
          /\ Len(response[1].absolute_acceleration.data) = Len(y0_ddot.data)
          /\ response[1].relative_displacement.size = Len(y0_ddot.data)
          /\ response[1].relative_velocity.size = Len(y0_ddot.data)
          /\ response[1].absolute_acceleration.size = Len(y0_ddot.data)

C5_LoopWrites ==
    (pc = "loop" /\ (i' # i \/ y' # y \/ y_dot' # y_dot \/ y_y0_ddot' # y_y0_ddot)) =>
        /\ i >= 1 /\ i <= n - 1
        /\ Len(y'.data) = n /\ Len(y_dot'.data) = n /\ Len(y_y0_ddot'.data) = n
        /\ \A k \in 0..(n - 1) :
              k # i => /\ VecIndex(y', k) = VecIndex(y, k)
                       /\ VecIndex(y_dot', k) = VecIndex(y_dot, k)
                       /\ VecIndex(y_y0_ddot', k) = VecIndex(y_y0_ddot, k)

\* C5: each of the three returned sequences has exactly the input's length n,
\* and a loop step writes index i only, with 1 <= i <= n-1.
C5_LengthPreservation == [](C5_Lengths) /\ [][C5_LoopWrites]_vars

\* A returned run of the longest input whose last index was written.
C5_Witness ==
    /\ pc = "returned" /\ n = MaxN
    /\ VecIndex(y, n - 1) # F(0)
    /\ Len(response[1].relative_displacement.data) = MaxN

\* C6: in the result displacement[0] and velocity[0] are 0 whatever g[0] and
\* the parameters are; with n = 1 the loop has run no step (the range 1..1
\* ends where it starts) and the result is three zero-filled sequences of
\* length 1.
C6_RestInitialCondition ==
    pc = "returned" =>
        /\ VecIndex(response[1].relative_displacement, 0) = F(0)
        /\ VecIndex(response[1].relative_velocity, 0) = F(0)
        /\ n = 1 =>
              /\ i = 1
              /\ response[1] = SdofResponse([size |-> 1, data |-> <<F(0)>>],
                                            [size |-> 1, data |-> <<F(0)>>],
                                            [size |-> 1, data |-> <<F(0)>>])

\* A returned run of one sample, g[0] # 0.
C6_Witness ==
    /\ pc = "returned" /\ n = 1
    /\ VecIndex(y0_ddot, 0) # F(0)
    /\ CoefFinite

\* How a call of nigam_jennings has ended: "Ok" (a response is returned),
\* "Panic" (unwinding), or "Running".
EngineOutcome ==
    IF pc = "returned" THEN "Ok" ELSE IF pc = "panic" THEN "Panic" ELSE "Running"

\* C7: a call with an input of length 0 ends with the error EmptyInput, as an
\* error result, and returns no response.
C7_EmptyInput ==
    (Len(y0_ddot.data) = 0 /\ EngineOutcome # "Running") =>
        /\ EngineOutcome = "EmptyInput"
        /\ response = <<>>

\* C8: a call with h >= 1, h < 0, omega <= 0 or delta_t <= 0 ends with
\* InvalidParameter before any coefficient is derived or any step runs, and
\* never returns a response.
C8_InvalidParameter ==
    (~ValidParameters /\ Len(y0_ddot.data) >= 1 /\ pc \notin {"idle", "start"}) =>
        /\ pc \notin {"for", "loop", "returned"}
        /\ response = <<>>

C10_Size ==
    /\ self.size = Len(self.data)
    /\ self.size = built

C10_OutOfRange ==
    (op' \in {"read", "write"} /\ index' >= built) =>
        /\ outcome' = "panic"
        /\ result' = <<>>
        /\ self' = self

\* C10: after any writes the recorded size of a Vector built with length n is
\* the number of stored elements and is n, and a read or write at an index
\* >= n fails and leaves the contents unchanged.
C10_FixedLength == [](C10_Size) /\ [][C10_OutOfRange]_vars

\* A write past the end of a Vector whose elements were written before.
C10_Witness ==
    /\ op = "write" /\ index >= built /\ outcome = "panic"
    /\ built >= 2 /\ ~AllZero(self)

\* C11: for operands of equal length n, + returns a new Vector r of length n
\* with r[k] = self[k] + other[k] for every k in 0..n-1, and - one with
\* r[k] = self[k] - other[k]; with n = 0 the result is empty. The operands
\* hold finite values here, so the sums and differences are those of integers.
C11_Elementwise ==
    (op \in {"add", "sub"} /\ self.size = other.size) =>
        /\ outcome = "ok"
        /\ Len(result) = 1
        /\ result[1].size = self.size
        /\ Len(result[1].data) = Len(self.data)
        /\ \A k \in 0..(self.size - 1) :
              /\ VecIndex(result[1], k).fin
              /\ op = "add" =>
                    VecIndex(result[1], k).v =
                        VecIndex(self, k).v + VecIndex(other, k).v
              /\ op = "sub" =>
                    VecIndex(result[1], k).v =
                        VecIndex(self, k).v - VecIndex(other, k).v
        /\ self.size = 0 => result[1].data = <<>>

\* A difference of two Vectors of the greatest length whose right operand is
\* not zero everywhere, so that it is not the sum.
C11_Witness ==
    /\ op = "sub" /\ outcome = "ok"
    /\ self.size = MaxSize /\ other.size = MaxSize
    /\ ~AllZero(self) /\ ~AllZero(other)
    /\ Len(result) = 1 /\ Len(result[1].data) = MaxSize

====
